---------------------------- MODULE Spec2Model ----------------------------
(***************************************************************************)
(* RinglyPro RCS assistant (src/app.py): the /send-rcs delivery            *)
(* orchestrator with its SMS fallback, the message store, the history      *)
(* read and the inbound webhook responder.                                 *)
(*                                                                         *)
(* Python str values are TLA+ strings, which TLC treats as sequences of    *)
(* one-character strings (Len, SubSeq, \o and = work on them).  Every      *)
(* non-ASCII code point of a source literal is written as one "#", so      *)
(* Len of a literal here is Python's len of the literal in the source.     *)
(***************************************************************************)
EXTENDS Integers, Sequences, FiniteSets, TLC

(***************************************************************************)
(* Bounds of the model.                                                    *)
(***************************************************************************)
\* requests handled in one run
MaxRequests == 2

(***************************************************************************)
(* Python values.                                                          *)
(***************************************************************************)
\* Python's None: a value distinct from every str the model draws
None == "<None>"

\* truthiness of an Optional[str]: None and '' are falsy
Truthy(v) == v # None /\ v # ""

\* dict.get(key, default) on a request body or form, modelled as a function
\* whose domain is the set of keys present
Get(d, k, default) == IF k \in DOMAIN d THEN d[k] ELSE default

\* s.startswith(p)
StartsWith(s, p) == Len(s) >= Len(p) /\ SubSeq(s, 1, Len(p)) = p

\* sub in s
Contains(s, sub) ==
    \E i \in 1..(Len(s) - Len(sub) + 1) : SubSeq(s, i, i + Len(sub) - 1) = sub

\* json.dumps of a str: quotes, backslashes and newlines are escaped, and a
\* non-ASCII code point ("#" here) becomes a \uXXXX escape, written "\\u#".
\* The string is escaped character by character, halving it to keep the
\* evaluation shallow.
JsonEscapeChar(c) ==
    CASE c = "\"" -> "\\\""
      [] c = "\\" -> "\\\\"
      [] c = "\n" -> "\\n"
      [] c = "#"  -> "\\u#"
      [] OTHER    -> c

RECURSIVE JsonEscape(_)
JsonEscape(s) ==
    IF Len(s) = 0 THEN ""
    ELSE IF Len(s) = 1 THEN JsonEscapeChar(s)
    ELSE LET h == Len(s) \div 2
         IN JsonEscape(SubSeq(s, 1, h)) \o JsonEscape(SubSeq(s, h + 1, Len(s)))

JsonStr(s) == "\"" \o JsonEscape(s) \o "\""

(***************************************************************************)
(* str methods and re.search, on the patterns the responder uses.          *)
(***************************************************************************)
UpperLetters == "ABCDEFGHIJKLMNOPQRSTUVWXYZ"
LowerLetters == "abcdefghijklmnopqrstuvwxyz"
Digits == "0123456789"
Whitespace == " \t\n\r"

\* the characters of s, as a set
Chars(s) == {SubSeq(s, i, i) : i \in 1..Len(s)}

LowerChar(c) ==
    IF c \in Chars(UpperLetters)
    THEN LET i == CHOOSE j \in 1..Len(UpperLetters) : SubSeq(UpperLetters, j, j) = c
         IN SubSeq(LowerLetters, i, i)
    ELSE c

\* s.lower()
RECURSIVE Lower(_)
Lower(s) ==
    IF Len(s) = 0 THEN ""
    ELSE IF Len(s) = 1 THEN LowerChar(s)
    ELSE LET h == Len(s) \div 2
         IN Lower(SubSeq(s, 1, h)) \o Lower(SubSeq(s, h + 1, Len(s)))

\* s.strip()
Strip(s) ==
    LET inner == {i \in 1..Len(s) : SubSeq(s, i, i) \notin Chars(Whitespace)}
    IN IF inner = {} THEN ""
       ELSE SubSeq(s, CHOOSE i \in inner : \A j \in inner : i <= j,
                      CHOOSE i \in inner : \A j \in inner : i >= j)

\* \w
IsWordChar(c) == c \in Chars(UpperLetters) \cup Chars(LowerLetters) \cup Chars(Digits) \cup {"_"}

\* sub occurs in s at position i
OccursAt(s, sub, i) ==
    /\ i >= 1
    /\ i + Len(sub) - 1 <= Len(s)
    /\ SubSeq(s, i, i + Len(sub) - 1) = sub

\* the three shapes of pattern in self.intents: r'\bw\b', a literal, r'a.*b'
Word(w) == [kind |-> "word", a |-> w, b |-> ""]
Sub(x) == [kind |-> "sub", a |-> x, b |-> ""]
Gap(x, y) == [kind |-> "gap", a |-> x, b |-> y]

\* re.search(pattern, s) is not None
ReSearch(pattern, s) ==
    CASE pattern.kind = "sub" -> Contains(s, pattern.a)
      [] pattern.kind = "word" ->
            \E i \in 1..Len(s) :
                /\ OccursAt(s, pattern.a, i)
                /\ i = 1 \/ ~IsWordChar(SubSeq(s, i - 1, i - 1))
                /\ LET e == i + Len(pattern.a)
                   IN e > Len(s) \/ ~IsWordChar(SubSeq(s, e, e))
      [] pattern.kind = "gap" ->
            \E i \in 1..Len(s), j \in 1..Len(s) :
                /\ OccursAt(s, pattern.a, i)
                /\ j >= i + Len(pattern.a)
                /\ OccursAt(s, pattern.b, j)
                /\ "\n" \notin Chars(SubSeq(s, i + Len(pattern.a), j - 1))

(***************************************************************************)
(* Configuration (environment variables read at import).                   *)
(***************************************************************************)
RCS_CARD_TEMPLATE_SID == "HXf872225ca0766f4b7f0f7ab024685ae7"
TWILIO_PHONE_NUMBER == "+18886103810"
\* the values os.getenv('TWILIO_MESSAGING_SERVICE_SID') can have
MessagingServiceSids == {None, "MG0001"}

VARIABLES
    TWILIO_MESSAGING_SERVICE_SID, \* the configured messaging service, or None
    messages,       \* table messages: the rows in insertion (id) order
    conversations,  \* table conversations: the rows in insertion order
    calls,          \* the gateway calls of the request handled last, in order
    inserts,        \* the store inserts it tried, in order
    request,        \* the request handled last
    response,       \* its response
    response_text,  \* the reply the webhook handled last computed
    nreq            \* requests handled so far

vars == <<TWILIO_MESSAGING_SERVICE_SID, messages, conversations,
          calls, inserts, request, response, response_text, nreq>>

(***************************************************************************)
(* The messaging provider.  messages.create either returns a message with  *)
(* a fresh sid ("ok"), or raises TwilioRestException ("rest": the provider *)
(* reports the request as failed), or raises something else ("other": no   *)
(* answer reached the client).  messages(sid).fetch() returns the          *)
(* message's from_ and status, or raises in the same two ways.             *)
(***************************************************************************)
CreateOutcomes == {"ok", "rest", "other"}
FetchOutcomes == {"ok", "rest", "other"}
\* the channels the provider can route a template send over
Routes == {"RCS", "SMS"}
\* sent_msg.from_ of a message that went out over RCS
RcsAgent == "rcs:ringlypro_agent"
\* sent_msg.status
ProviderStatus == "queued"

\* the id the provider gives the message of attempt `a` ("rich", "fallback",
\* "reply") of request number r: ids are opaque and never repeat
Sid(r, a) == "SM" \o ToString(r) \o a

\* str(e) of the exception raised by the k-th gateway call of a request
ErrorText(k, op) ==
    "HTTP error: Unable to " \o op \o " record (call " \o ToString(k) \o ")"

\* a messages.create call as the provider sees it, with its outcome: the sid
\* and the route of an accepted message, None otherwise
CreateCall(service, to, content_sid, content_variables, body, media_url, outcome, sid, via) ==
    [op |-> "create", messaging_service_sid |-> service, to |-> to,
     content_sid |-> content_sid, content_variables |-> content_variables,
     body |-> body, media_url |-> media_url, outcome |-> outcome,
     sid |-> IF outcome = "ok" THEN sid ELSE None,
     via |-> IF outcome = "ok" THEN via ELSE None]

\* a messages(sid).fetch() call
FetchCall(sid, outcome) ==
    [op |-> "fetch", messaging_service_sid |-> None, to |-> None, content_sid |-> None,
     content_variables |-> None, body |-> None, media_url |-> None,
     outcome |-> outcome, sid |-> sid, via |-> None]

(***************************************************************************)
(* The message store.                                                      *)
(***************************************************************************)
\* json.dumps({'name': n, 'date': d, 'time': t})
JsonVariables(n, d, t) ==
    "{\"name\": " \o JsonStr(n) \o ", \"date\": " \o JsonStr(d)
        \o ", \"time\": " \o JsonStr(t) \o "}"

\* json.dumps of a list of str
RECURSIVE JsonItems(_)
JsonItems(q) ==
    IF Len(q) = 0 THEN ""
    ELSE JsonStr(q[1]) \o (IF Len(q) > 1 THEN ", " ELSE "") \o JsonItems(Tail(q))

JsonList(q) == "[" \o JsonItems(q) \o "]"

\* the row log_message inserts; id is AUTOINCREMENT, timestamp defaults to
\* CURRENT_TIMESTAMP
MessageRow(table, now, recipient, message, image_url, quick_replies, variables, status, message_type, sid, template_used) ==
    [id |-> Len(table) + 1,
     recipient |-> recipient,
     message |-> message,
     image_url |-> image_url,
     quick_replies |-> IF Len(quick_replies) > 0 THEN JsonList(quick_replies) ELSE None,
     variables |-> variables,
     template_used |-> template_used,
     status |-> status,
     message_type |-> message_type,
     timestamp |-> now,
     sid |-> sid]

\* CURRENT_TIMESTAMP at an insert: the clock counts seconds and does not run
\* backwards, so a row is stamped with the second of the row before it or a
\* later one
Timestamps(table) ==
    LET last == IF Len(table) = 0 THEN 0 ELSE table[Len(table)].timestamp
    IN {last, last + 1}

\* log_message: the insert tried and whether it went through; when it raises
\* the error is printed and nothing is stored
log_message(insert_ok, row) == [table |-> "messages", row |-> row, ok |-> insert_ok]

\* a table after the inserts tried on it
Stored(table, tried) ==
    LET done == SelectSeq(tried, LAMBDA t : t.ok)
    IN table \o [i \in 1..Len(done) |-> done[i].row]

(***************************************************************************)
(* POST /send-rcs                                                          *)
(***************************************************************************)
\* the phone passed on as it came
PhoneAsGiven(phone) == phone

\* the phone as passed on: '+' is prepended unless it is there
NormalizePhone(phone) == IF StartsWith(phone, "+") THEN phone ELSE "+" \o phone

\* the fixed text built from the template variables
TemplateMessage(customer_name, appointment_date, appointment_time) ==
    "Hi " \o customer_name \o "! Your appointment is scheduled for "
        \o appointment_date \o " at " \o appointment_time
        \o ". Please confirm your attendance. Reply 1 to Confirm, 2 to Reschedule, or 3 to Call us."

\* complete_message: the custom message when there is one
CompleteMessage(custom_message, customer_name, appointment_date, appointment_time) ==
    IF Truthy(custom_message)
    THEN custom_message
    ELSE TemplateMessage(customer_name, appointment_date, appointment_time)

\* the body the fallback SMS carries
FallbackBody(complete_message) == complete_message

\* the channel the fallback is recorded and reported with
FallbackType(image_url) == IF ~Truthy(image_url) THEN "SMS" ELSE "MMS"

\* the locals of the handler before it turns to the gateway
SendLocals(data) ==
    LET phone == Get(data, "phone", None)
        customer_name == Get(data, "customer_name", "Customer")
        appointment_date == Get(data, "date", "tomorrow")
        appointment_time == Get(data, "time", "2:00 PM")
        custom_message == Get(data, "message", None)
        complete_message == CompleteMessage(custom_message, customer_name,
                                            appointment_date, appointment_time)
    IN [phone |-> phone,
        recipient_phone |-> IF Truthy(phone) THEN NormalizePhone(phone) ELSE phone,
        customer_name |-> customer_name,
        appointment_date |-> appointment_date,
        appointment_time |-> appointment_time,
        custom_message |-> custom_message,
        image_url |-> Get(data, "image_url", None),
        quick_replies |-> Get(data, "quick_replies", <<>>),
        complete_message |-> complete_message,
        \* json.dumps({"1": complete_message})
        content_variables |-> "{\"1\": " \o JsonStr(complete_message) \o "}",
        fallback_body |-> FallbackBody(complete_message),
        \* json.dumps of the variables logged
        variables |-> JsonVariables(customer_name, appointment_date, appointment_time)]

\* the JSON responses of /send-rcs
SendFailure(code, error) ==
    [endpoint |-> "send-rcs", code |-> code, success |-> FALSE, error |-> error,
     sid |-> None, status |-> None, message_type |-> None, from |-> None,
     template_used |-> None, note |-> None]

SendSuccess(sid, status, message_type, from, template_used, note) ==
    [endpoint |-> "send-rcs", code |-> 200, success |-> TRUE, error |-> None,
     sid |-> sid, status |-> status, message_type |-> message_type, from |-> from,
     template_used |-> template_used, note |-> note]

\* the answer were the insert error to leave log_message
AfterLogMessageRaised(insert_ok, resp) ==
    IF insert_ok THEN resp ELSE SendFailure(500, "database is locked")

\* the answer the handler goes on to give once log_message has returned:
\* log_message catches the insert error itself
AfterLogMessage(insert_ok, resp) == resp

\* the rich attempt: the template with the whole text as its variable "1"
RichCall(v, outcome, sid, via) ==
    CreateCall(TWILIO_MESSAGING_SERVICE_SID, v.recipient_phone, RCS_CARD_TEMPLATE_SID,
               v.content_variables, None, None, outcome, sid, via)

\* the fallback attempt: a plain body, with the image as media when given
FallbackCall(v, outcome, sid) ==
    CreateCall(TWILIO_MESSAGING_SERVICE_SID, v.recipient_phone, None, None,
               v.fallback_body,
               IF Truthy(v.image_url) THEN v.image_url ELSE None,
               outcome, sid, FallbackType(v.image_url))

\* what a handler leaves behind
Finish(req, resp, gateway, tried) ==
    /\ request' = req
    /\ response' = resp
    /\ calls' = gateway
    /\ inserts' = tried
    /\ messages' = Stored(messages, tried)

\* the except TwilioRestException branch: the SMS fallback, after the gateway
\* calls `before` of the rich attempt
SendFallback(req, v, before) ==
    LET sid == Sid(req.number, "fallback")
        k == Len(before) + 1
    IN
    \E create \in CreateOutcomes :
        IF create # "ok"
        THEN Finish(req, SendFailure(500, ErrorText(k, "create")),
                    before \o <<FallbackCall(v, create, sid)>>, <<>>)
        ELSE \E fetch \in FetchOutcomes :
            LET gateway == before \o <<FallbackCall(v, "ok", sid), FetchCall(sid, fetch)>>
            IN
            IF fetch # "ok"
            THEN Finish(req, SendFailure(500, ErrorText(k + 1, "fetch")),
                        gateway, <<>>)
            ELSE \E insert_ok \in BOOLEAN, now \in Timestamps(messages) :
                Finish(req,
                       AfterLogMessage(insert_ok,
                           SendSuccess(sid, ProviderStatus, FallbackType(v.image_url),
                                       TWILIO_PHONE_NUMBER, None,
                                       "Sent as SMS/MMS (Template error)")),
                       gateway,
                       <<log_message(insert_ok,
                           MessageRow(messages, now, v.recipient_phone,
                                      v.complete_message, v.image_url, v.quick_replies,
                                      v.variables, ProviderStatus,
                                      FallbackType(v.image_url), sid, None))>>)

\* sent_msg.from_ of a message routed over `via`
SenderOf(via) == IF via = "RCS" THEN RcsAgent ELSE TWILIO_PHONE_NUMBER

\* is_rcs of each route: 'rcs:' in from_field.lower(), computed once
IsRcs == [via \in Routes |-> Contains(Lower(SenderOf(via)), "rcs:")]

\* the rich attempt's error answered, with no fallback
AnswerRichError(req, v, before) ==
    Finish(req, SendFailure(500, ErrorText(Len(before), before[Len(before)].op)),
           before, <<>>)

\* what the handler does with a TwilioRestException raised in the try block
\* of the rich attempt, by messages.create or by the fetch after it
OnTwilioRestException(req, v, before) == SendFallback(req, v, before)

\* the try block: the rich (template) attempt
SendRich(req, v) ==
    LET sid == Sid(req.number, "rich")
    IN
    \E create \in CreateOutcomes :
        CASE create = "rest" ->
                OnTwilioRestException(req, v, <<RichCall(v, "rest", sid, None)>>)
          [] create = "other" ->
                Finish(req, SendFailure(500, ErrorText(1, "create")),
                       <<RichCall(v, "other", sid, None)>>, <<>>)
          [] create = "ok" ->
                \E via \in Routes, fetch \in FetchOutcomes :
                    LET gateway == <<RichCall(v, "ok", sid, via), FetchCall(sid, fetch)>>
                        from_field == SenderOf(via)
                        message_type == IF IsRcs[via] THEN "RCS" ELSE "SMS"
                    IN
                    CASE fetch = "rest" -> OnTwilioRestException(req, v, gateway)
                      [] fetch = "other" ->
                            Finish(req, SendFailure(500, ErrorText(2, "fetch")),
                                   gateway, <<>>)
                      [] fetch = "ok" ->
                            \E insert_ok \in BOOLEAN, now \in Timestamps(messages) :
                                Finish(req,
                                       AfterLogMessage(insert_ok,
                                           SendSuccess(sid, ProviderStatus, message_type,
                                                       from_field, "rcs_card", None)),
                                       gateway,
                                       <<log_message(insert_ok,
                                           MessageRow(messages, now, v.recipient_phone,
                                                      v.complete_message, v.image_url,
                                                      v.quick_replies, v.variables,
                                                      ProviderStatus, message_type, sid,
                                                      RCS_CARD_TEMPLATE_SID))>>)

\* the configuration check left out
MessagingServiceAssumed == TRUE

\* the configuration check that precedes the gateway
MessagingServiceConfigured == Truthy(TWILIO_MESSAGING_SERVICE_SID)

\* the phone check left out
PhoneNotChecked(v) == FALSE

\* the phone check: no phone in the body, or an empty one
PhoneMissing(v) == ~Truthy(v.phone)

send_rcs(data, v) ==
    /\ nreq < MaxRequests
    /\ nreq' = nreq + 1
    /\ UNCHANGED <<TWILIO_MESSAGING_SERVICE_SID, conversations, response_text>>
    /\ LET req == [endpoint |-> "send-rcs", number |-> nreq + 1, data |-> data]
       IN
       IF "MalformedJson" \in DOMAIN data
       THEN \* request.json raises, and the outer except answers
            Finish(req, SendFailure(500, "400 Bad Request: The browser (or proxy) sent a request that this server could not understand."),
                   <<>>, <<>>)
       ELSE IF PhoneMissing(v)
       THEN Finish(req, SendFailure(400, "Phone number is required"), <<>>, <<>>)
       ELSE IF ~MessagingServiceConfigured
       THEN Finish(req,
                   SendFailure(500, "Messaging service not configured. Please check environment variables."),
                   <<>>, <<>>)
       ELSE SendRich(req, v)

(***************************************************************************)
(* IntelligentResponder                                                    *)
(***************************************************************************)
Intent_greeting ==
    [name |-> "greeting",
     patterns |-> << Word("hello"), Word("hi"), Word("hey"),
                      Word("good morning"), Word("good afternoon"),
                      Word("good evening") >>,
     responses |->
        << "Hello! # Welcome to RinglyPro! How can I help you today?",
           "Hi there! # Thanks for reaching out to RinglyPro. What can I assist you with?",
           "Hey! Great to hear from you. How can RinglyPro help your business today?" >>]

Intent_get_started ==
    [name |-> "get_started",
     patterns |-> << Sub("get started"), Gap("how", "start"), Sub("sign up"),
                      Sub("begin"), Gap("try", "free"), Gap("start", "trial") >>,
     responses |->
        << "# Getting started with RinglyPro is easy!\n\n1## Sign up for free at ringlypro.com\n2## Connect your phone number\n3## Start automating!\n\nReply DEMO for a walkthrough or PRICING for our plans." >>]

Intent_pricing ==
    [name |-> "pricing",
     patterns |-> << Sub("pric"), Sub("cost"), Sub("how much"), Sub("plans"),
                      Sub("subscription"), Sub("fee") >>,
     responses |->
        << "# RinglyPro Pricing:\n\n# Starter: $29/mo\n- 1,000 messages\n- Basic automation\n\n# Pro: $99/mo\n- 10,000 messages\n- Advanced AI\n- Priority support\n\n# Enterprise: Custom\n- Unlimited messages\n- Custom integrations\n\nReply TRIAL for 14-day free trial!" >>]

Intent_features ==
    [name |-> "features",
     patterns |-> << Sub("features"), Gap("what", "do"), Sub("capabilities"),
                      Sub("benefits"), Gap("what", "offer") >>,
     responses |->
        << "# RinglyPro Features:\n\n# 24/7 AI Receptionist\n# Smart appointment scheduling\n# RCS & SMS automation\n# Analytics dashboard\n# CRM integration\n# Missed call text-back\n# Lead qualification\n\nReply DEMO to see it in action!" >>]

Intent_demo ==
    [name |-> "demo",
     patterns |-> << Sub("demo"), Sub("trial"), Sub("test"), Sub("try"),
                      Sub("sample"), Sub("example") >>,
     responses |->
        << "# I'd love to show you RinglyPro in action!\n\n# Book a demo: ringlypro.com/demo\n# Call us: 1-888-610-3810\n# Or reply SCHEDULE to book right now!\n\nYou can also start your 14-day free trial immediately!" >>]

Intent_support ==
    [name |-> "support",
     patterns |-> << Sub("help"), Sub("support"), Sub("problem"),
                      Sub("issue"), Sub("not work"), Sub("trouble") >>,
     responses |->
        << "# I'm here to help!\n\n# Email: support@ringlypro.com\n# Phone: 1-888-610-3810\n# Live chat: ringlypro.com/chat\n\nWhat specific issue are you experiencing? I'll help you right away!" >>]

Intent_appointment ==
    [name |-> "appointment",
     patterns |-> << Sub("appointment"), Sub("schedule"), Sub("book"),
                      Sub("meeting"), Sub("calendar") >>,
     responses |->
        << "# Let's schedule your appointment!\n\nAvailable slots this week:\n# Tomorrow 2:00 PM\n# Thursday 10:00 AM\n# Friday 3:30 PM\n\nReply with your preferred time or CALL to speak with someone now." >>]

Intent_thanks ==
    [name |-> "thanks",
     patterns |-> << Sub("thank"), Sub("thanks"), Sub("thx"),
                      Sub("appreciate"), Sub("ty") >>,
     responses |->
        << "You're welcome! # We're always here to help. Don't hesitate to reach out if you need anything else!",
           "Happy to help! # Is there anything else you'd like to know about RinglyPro?" >>]

Intent_bye ==
    [name |-> "bye",
     patterns |-> << Sub("bye"), Sub("goodbye"), Sub("see you"), Sub("later"),
                      Sub("exit") >>,
     responses |->
        << "Goodbye! # Thanks for chatting with RinglyPro. We're here 24/7 whenever you need us!",
           "See you soon! # Remember, you can always text us or visit ringlypro.com. Have a great day!" >>]

\* self.intents, in declaration order (the order a dict iterates in)
intents ==
    << Intent_greeting, Intent_get_started, Intent_pricing, Intent_features,
       Intent_demo, Intent_support, Intent_appointment, Intent_thanks,
       Intent_bye >>

\* detect_intent with the last matching intent winning
detect_intent_last(message) ==
    LET message_lower == Lower(message)
        hits == {n \in 1..Len(intents) :
                    \E k \in 1..Len(intents[n].patterns) :
                        ReSearch(intents[n].patterns[k], message_lower)}
    IN IF hits = {} THEN None
       ELSE intents[CHOOSE n \in hits : \A m \in hits : n >= m].name

\* detect_intent: the first intent, in declaration order, one of whose
\* patterns is found in the lower-cased message; None when there is none
detect_intent(message) ==
    LET message_lower == Lower(message)
        hits == {n \in 1..Len(intents) :
                    \E k \in 1..Len(intents[n].patterns) :
                        ReSearch(intents[n].patterns[k], message_lower)}
    IN IF hits = {} THEN None
       ELSE intents[CHOOSE n \in hits : \A m \in hits : n <= m].name

YesReply ==
    "Great! # What would you like to do next? You can:\n\n1## Start free trial\n2## Schedule a demo\n3## Learn about features\n\nJust reply with your choice!"

NoReply ==
    "No problem! If you change your mind or have any questions, I'm here 24/7. How else can I help you today?"

DefaultReply ==
    "Thanks for your message! I can help you with:\n\n# Getting started with RinglyPro\n# Pricing information\n# Features overview\n# Scheduling a demo\n# Technical support\n\nWhat interests you most?"

\* get_response: the replies random.choice can pick for the message
get_response(message) ==
    LET intent == detect_intent(message)
        message_lower == Lower(message)
    IN IF intent # None
       THEN LET n == CHOOSE m \in 1..Len(intents) : intents[m].name = intent
            IN {intents[n].responses[k] : k \in 1..Len(intents[n].responses)}
       ELSE IF \E word \in {"yes", "yeah", "sure", "ok", "okay", "yep"} :
                    Contains(message_lower, word)
       THEN {YesReply}
       ELSE IF \E word \in {"no", "nope", "not", "nah"} : Contains(message_lower, word)
       THEN {NoReply}
       ELSE {DefaultReply}

(***************************************************************************)
(* The conversation store.                                                 *)
(***************************************************************************)
\* str(x) of a str or None
Str(x) == IF x = None THEN "None" ELSE x

\* the intent value handed to log_conversation
LoggedIntent(intent) == Str(intent)

ConversationRow(table, now, phone, message, response_, intent) ==
    [id |-> Len(table) + 1, phone_number |-> phone, message |-> message,
     response |-> response_, intent |-> intent, timestamp |-> now]

\* log_conversation: the insert tried and whether it went through; it raises,
\* and the error is printed, also when phone_number or message, which are
\* NOT NULL columns, is None
log_conversation(insert_ok, row) ==
    [table |-> "conversations", row |-> row,
     ok |-> insert_ok /\ row.phone_number # None /\ row.message # None]

(***************************************************************************)
(* POST /rcs-webhook                                                       *)
(***************************************************************************)
WebsiteReply ==
    "# Visit us at ringlypro.com or let me know what specific information you're looking for!"

ButtonConfirmReply ==
    "# Perfect! Your appointment is confirmed. We'll send you a reminder 24 hours before."

ButtonRescheduleReply ==
    "# No problem! When would work better for you? Reply with your preferred date and time."

CallUsReply ==
    "# Please call us at 1-888-610-3810. We're available Mon-Fri 9AM-5PM EST."

DigitConfirmReply ==
    "# Perfect! Your appointment is confirmed. We'll see you soon!"

DigitRescheduleReply ==
    "# To reschedule, please call us at 1-888-610-3810 or reply with your preferred date and time."

GreetingReply ==
    "Thanks for reaching out to RinglyPro! How can I help you today?"

\* the length from which a reply goes out as a card, taken one lower
LongReplyFrom == 300 - 1

\* replies longer than this go out through the template
LongReply == 300

\* the branches with "website" a label like the others
BranchWebsiteLabel(button_payload, body) ==
    IF Truthy(button_payload)
    THEN LET button_lower == Lower(button_payload)
         IN IF button_lower = "website" THEN "website"
            ELSE IF button_lower \in {"confirm", "confirmed"} THEN "confirm"
            ELSE IF button_lower \in {"reschedule"} THEN "reschedule"
            ELSE IF button_lower \in {"call", "call_us", "call us"} THEN "call"
            ELSE "button-ai"
    ELSE IF Truthy(body)
    THEN IF Strip(body) = "1" THEN "1"
         ELSE IF Strip(body) = "2" THEN "2"
         ELSE IF Strip(body) = "3" THEN "3"
         ELSE "text-ai"
    ELSE "empty"

\* the branches with the button payload compared as it came
BranchCaseSensitive(button_payload, body) ==
    IF Truthy(button_payload)
    THEN LET button_lower == button_payload
         IN IF Contains(button_lower, "website") THEN "website"
            ELSE IF button_lower \in {"confirm", "confirmed"} THEN "confirm"
            ELSE IF button_lower \in {"reschedule"} THEN "reschedule"
            ELSE IF button_lower \in {"call", "call_us", "call us"} THEN "call"
            ELSE "button-ai"
    ELSE IF Truthy(body)
    THEN IF Strip(body) = "1" THEN "1"
         ELSE IF Strip(body) = "2" THEN "2"
         ELSE IF Strip(body) = "3" THEN "3"
         ELSE "text-ai"
    ELSE "empty"

\* the branch of the handler that computes the reply
Branch(button_payload, body) ==
    IF Truthy(button_payload)
    THEN LET button_lower == Lower(button_payload)
         IN IF Contains(button_lower, "website") THEN "website"
            ELSE IF button_lower \in {"confirm", "confirmed"} THEN "confirm"
            ELSE IF button_lower \in {"reschedule"} THEN "reschedule"
            ELSE IF button_lower \in {"call", "call_us", "call us"} THEN "call"
            ELSE "button-ai"
    ELSE IF Truthy(body)
    THEN IF Strip(body) = "1" THEN "1"
         ELSE IF Strip(body) = "2" THEN "2"
         ELSE IF Strip(body) = "3" THEN "3"
         ELSE "text-ai"
    ELSE "empty"

\* the replies with one confirmation text for the button and the digit
RepliesOneConfirmText(button_payload, body) ==
    LET b == Branch(button_payload, body)
    IN CASE b = "website" -> {WebsiteReply}
         [] b = "confirm" -> {ButtonConfirmReply}
         [] b = "reschedule" -> {ButtonRescheduleReply}
         [] b = "call" -> {CallUsReply}
         [] b = "button-ai" -> get_response(button_payload)
         [] b = "1" -> {ButtonConfirmReply}
         [] b = "2" -> {DigitRescheduleReply}
         [] b = "3" -> {CallUsReply}
         [] b = "text-ai" -> get_response(body)
         [] b = "empty" -> {GreetingReply}

\* the replies the handler can compute (one, but for random.choice)
Replies(button_payload, body) ==
    LET b == Branch(button_payload, body)
    IN CASE b = "website" -> {WebsiteReply}
         [] b = "confirm" -> {ButtonConfirmReply}
         [] b = "reschedule" -> {ButtonRescheduleReply}
         [] b = "call" -> {CallUsReply}
         [] b = "button-ai" -> get_response(button_payload)
         [] b = "1" -> {DigitConfirmReply}
         [] b = "2" -> {DigitRescheduleReply}
         [] b = "3" -> {CallUsReply}
         [] b = "text-ai" -> get_response(body)
         [] b = "empty" -> {GreetingReply}

\* the branches that call log_conversation
LogsConversation(branch) == branch = "text-ai"

\* the response of the handler when it returns, and when it has caught an
\* exception
WebhookReturn == [endpoint |-> "rcs-webhook", code |-> 200, body |-> ""]
WebhookErrorStatus == [endpoint |-> "rcs-webhook", code |-> 500, body |-> ""]
WebhookOnException == [endpoint |-> "rcs-webhook", code |-> 200, body |-> ""]

\* the outcomes of messages.create in the webhook: without a messaging
\* service the provider has no sender and rejects the request
ReplyOutcomes ==
    IF MessagingServiceConfigured THEN CreateOutcomes ELSE {"rest", "other"}

ReplyBodyCall(to, text, outcome, sid) ==
    CreateCall(TWILIO_MESSAGING_SERVICE_SID, to, None, None, text, None,
               outcome, sid, "SMS")

ReplyTemplateCall(to, text, outcome, sid, via) ==
    CreateCall(TWILIO_MESSAGING_SERVICE_SID, to, RCS_CARD_TEMPLATE_SID,
               "{\"1\": " \o JsonStr(text) \o "}", None, None, outcome, sid, via)

\* what the handler leaves behind
FinishWebhook(req, text, resp, gateway, tried) ==
    /\ request' = req
    /\ response_text' = text
    /\ response' = resp
    /\ calls' = gateway
    /\ inserts' = tried
    /\ conversations' = Stored(conversations, tried)

\* the send of the reply, and the return
SendReply(req, text, from_number, tried) ==
    LET sid == Sid(req.number, "reply")
    IN
    IF ~(Truthy(text) /\ Truthy(from_number))
    THEN FinishWebhook(req, text, WebhookReturn, <<>>, tried)
    ELSE IF Len(text) > LongReply /\ Truthy(RCS_CARD_TEMPLATE_SID)
    THEN \E create \in ReplyOutcomes, via \in Routes :
            IF create = "ok"
            THEN FinishWebhook(req, text, WebhookReturn,
                     <<ReplyTemplateCall(from_number, text, "ok", sid, via)>>, tried)
            ELSE \E again \in ReplyOutcomes :
                FinishWebhook(req, text,
                    IF again = "ok" THEN WebhookReturn ELSE WebhookOnException,
                    <<ReplyTemplateCall(from_number, text, create, sid, via),
                      ReplyBodyCall(from_number, text, again, sid)>>, tried)
    ELSE \E create \in ReplyOutcomes :
            FinishWebhook(req, text,
                IF create = "ok" THEN WebhookReturn ELSE WebhookOnException,
                <<ReplyBodyCall(from_number, text, create, sid)>>, tried)

\* the locals of the handler once the reply is chosen: the fields read from
\* the form, the branch taken, the replies it can compute and, where the
\* conversation is logged, the intent logged
WebhookLocals(form) ==
    LET button_payload == Get(form, "ButtonPayload", None)
        body == Strip(Get(form, "Body", ""))
        branch == Branch(button_payload, body)
    IN [from_number |-> Get(form, "From", None),
        button_payload |-> button_payload,
        body |-> body,
        branch |-> branch,
        replies |-> Replies(button_payload, body),
        intent |-> IF LogsConversation(branch)
                   THEN LoggedIntent(detect_intent(body))
                   ELSE None]

handle_rcs_webhook(form, locals) ==
    /\ nreq < MaxRequests
    /\ nreq' = nreq + 1
    /\ UNCHANGED <<TWILIO_MESSAGING_SERVICE_SID, messages>>
    /\ LET req == [endpoint |-> "rcs-webhook", number |-> nreq + 1, data |-> form]
       IN
       IF "MalformedJson" \in DOMAIN form
       THEN \* request.json raises while the request is printed
            FinishWebhook(req, "", WebhookOnException, <<>>, <<>>)
       ELSE \E text \in locals.replies :
            IF LogsConversation(locals.branch)
            THEN \E insert_ok \in BOOLEAN, now \in Timestamps(conversations) :
                    SendReply(req, text, locals.from_number,
                        <<log_conversation(insert_ok,
                            ConversationRow(conversations, now, locals.from_number,
                                            locals.body, text, locals.intent))>>)
            ELSE SendReply(req, text, locals.from_number, <<>>)

\* the forms drawn
WebhookForms ==
    << [From |-> "+15551230002", ButtonPayload |-> "confirm"],
       [From |-> "+15551230002", ButtonPayload |-> "CONFIRM", Body |-> "2"],
       [ButtonPayload |-> "Confirm", Body |-> "hello"],
       [From |-> "+15551230002", ButtonPayload |-> "Confirmed"],
       [From |-> "+15551230002", ButtonPayload |-> "Reschedule"],
       [From |-> "+15551230002", ButtonPayload |-> "call_us"],
       [From |-> "+15551230002", ButtonPayload |-> "Visit Website"],
       [From |-> "+15551230002", ButtonPayload |-> "Pricing"],
       [From |-> "+15551230002", Body |-> "1"],
       [From |-> "+15551230002", Body |-> " 1\n"],
       [From |-> "+15551230002", Body |-> "2"],
       [From |-> "+15551230002", Body |-> "3"],
       [From |-> "+15551230002", ButtonPayload |-> "", Body |-> "asdkjasd"],
       [Body |-> "asdkjasd"],
       [From |-> "+15551230002", Body |-> "Hi, how much does it cost?"],
       [From |-> "+15551230002", Body |-> "nah"],
       [From |-> "+15551230002", Body |-> "THANKS for the demo, bye"],
       [From |-> "+15551230002"],
       [MalformedJson |-> "{"] >>

\* the handler's locals for each form drawn, computed once
WebhookCases == [i \in 1..Len(WebhookForms) |-> WebhookLocals(WebhookForms[i])]

\* the request bodies drawn
SendRequests ==
    << [phone |-> "15551230001", customer_name |-> "Ann", date |-> "Friday",
        time |-> "9:00 AM"],
       [phone |-> "+15551230001", message |-> "Bring \"ID\"",
        image_url |-> "https://img/1.jpg", quick_replies |-> <<"Yes", "No">>],
       [phone |-> "15551230001", message |-> "Doors open at 8"],
       [phone |-> "", message |-> "Doors open at 8"],
       [customer_name |-> "Ann"],
       [MalformedJson |-> "{"] >>

\* the handler's locals for each request body drawn, computed once
SendCases == [i \in 1..Len(SendRequests) |-> SendLocals(SendRequests[i])]

(***************************************************************************)
(* GET /messages                                                           *)
(***************************************************************************)
\* the limit used when the query has none, or one that is no integer
DefaultLimit == 50

\* the value of a run of digits
RECURSIVE DigitsValue(_)
DigitsValue(s) ==
    IF Len(s) = 0 THEN 0
    ELSE LET last == SubSeq(s, Len(s), Len(s))
             d == CHOOSE n \in 0..9 : SubSeq(Digits, n + 1, n + 1) = last
         IN 10 * DigitsValue(SubSeq(s, 1, Len(s) - 1)) + d

\* int(s): whether s, stripped, is an optionally signed run of digits (a
\* ValueError otherwise), and its value
ParseInt(s) ==
    LET t == Strip(s)
        signed == Len(t) > 0 /\ SubSeq(t, 1, 1) \in {"+", "-"}
        digits == IF signed THEN SubSeq(t, 2, Len(t)) ELSE t
    IN IF Len(digits) = 0 \/ ~(Chars(digits) \subseteq Chars(Digits))
       THEN [ok |-> FALSE, value |-> 0]
       ELSE [ok |-> TRUE,
             value |-> IF signed /\ SubSeq(t, 1, 1) = "-"
                       THEN 0 - DigitsValue(digits)
                       ELSE DigitsValue(digits)]

\* request.args.get('limit', 50, type=int)
LimitArg(args) ==
    IF "limit" \notin DOMAIN args THEN DefaultLimit
    ELSE IF ~ParseInt(args["limit"]).ok THEN DefaultLimit
    ELSE ParseInt(args["limit"]).value

\* the orders of n rows: the permutations of 1..n
RowOrders(n) ==
    {p \in [1..n -> 1..n] : \A i, j \in 1..n : i # j => p[i] # p[j]}

\* ORDER BY timestamp DESC: the orders the rows can come back in; rows of
\* the same second come in any order
OrderByTimestampDesc(table) ==
    {[i \in 1..Len(table) |-> table[p[i]]] :
        p \in {q \in RowOrders(Len(table)) :
                \A i, j \in 1..Len(table) :
                    i < j => table[q[i]].timestamp >= table[q[j]].timestamp}}

\* LIMIT ?: SQLite takes a negative limit as no limit
SqlLimit(rows, limit) ==
    IF limit < 0 THEN rows
    ELSE SubSeq(rows, 1, IF limit < Len(rows) THEN limit ELSE Len(rows))

\* json.loads of the two JSON columns, as the inverse of the json.dumps that
\* wrote them, over the values the requests drawn can store
LoadsQuickReplies ==
    [s \in {JsonList(SendCases[i].quick_replies) : i \in 1..Len(SendCases)} |->
        LET i == CHOOSE j \in 1..Len(SendCases) : JsonList(SendCases[j].quick_replies) = s
        IN SendCases[i].quick_replies]

LoadsVariables ==
    [s \in {SendCases[i].variables : i \in 1..Len(SendCases)} |->
        LET i == CHOOSE j \in 1..Len(SendCases) : SendCases[j].variables = s
        IN [name |-> SendCases[i].customer_name, date |-> SendCases[i].appointment_date,
            time |-> SendCases[i].appointment_time]]

\* a row as returned: the JSON columns that hold something are parsed
ReturnedRow(row) ==
    [row EXCEPT !.quick_replies = IF Truthy(@) THEN LoadsQuickReplies[@] ELSE @,
                !.variables = IF Truthy(@) THEN LoadsVariables[@] ELSE @]

MessagesResponse(code, rows, error) ==
    [endpoint |-> "messages", code |-> code, rows |-> rows, error |-> error]

get_messages(args) ==
    /\ nreq < MaxRequests
    /\ nreq' = nreq + 1
    /\ UNCHANGED <<TWILIO_MESSAGING_SERVICE_SID, messages, conversations, response_text>>
    /\ request' = [endpoint |-> "messages", number |-> nreq + 1, data |-> args]
    /\ calls' = <<>>
    /\ inserts' = <<>>
    /\ \E db_ok \in BOOLEAN :
        IF ~db_ok
        THEN response' = MessagesResponse(500, <<>>, "database error")
        ELSE \E ordered \in OrderByTimestampDesc(messages) :
            LET rows == SqlLimit(ordered, LimitArg(args))
            IN response' = MessagesResponse(200,
                                [i \in 1..Len(rows) |-> ReturnedRow(rows[i])], None)

\* the query strings drawn
MessagesQueries ==
    << [none |-> ""], [limit |-> "1"], [limit |-> "2"], [limit |-> "0"],
       [limit |-> "-1"], [limit |-> "many"] >>

Init ==
    /\ TWILIO_MESSAGING_SERVICE_SID \in MessagingServiceSids
    /\ messages = <<>>
    /\ conversations = <<>>
    /\ calls = <<>>
    /\ inserts = <<>>
    /\ request = [endpoint |-> "none"]
    /\ response = [endpoint |-> "none"]
    /\ response_text = ""
    /\ nreq = 0

Next ==
    \/ \E i \in 1..Len(SendRequests) : send_rcs(SendRequests[i], SendCases[i])
    \/ \E i \in 1..Len(MessagesQueries) : get_messages(MessagesQueries[i])
    \/ \E i \in 1..Len(WebhookForms) :
            handle_rcs_webhook(WebhookForms[i], WebhookCases[i])

Spec == Init /\ [][Next]_vars

(***************************************************************************)
(* The send block of the webhook on its own, applied to reply texts of     *)
(* lengths on both sides of LongReply. The replies the handler computes    *)
(* are all shorter.                                                        *)
(***************************************************************************)
\* a text of n characters
RECURSIVE Filler(_)
Filler(n) ==
    IF n = 0 THEN ""
    ELSE IF n = 1 THEN "x"
    ELSE Filler(n \div 2) \o Filler(n - n \div 2)

\* the reply texts drawn
ReplyTexts ==
    << GreetingReply, DefaultReply, "", Filler(LongReply - 1), Filler(LongReply),
       Filler(LongReply + 1), Filler(LongReply + 50) >>

\* the forms drawn: with and without the sender
ReplyForms == << [From |-> "+15551230002"], [To |-> "+18886103810"] >>

\* the block `if response_text and from_number: ...` and the return
send_reply(form, text) ==
    /\ nreq < MaxRequests
    /\ nreq' = nreq + 1
    /\ UNCHANGED <<TWILIO_MESSAGING_SERVICE_SID, messages>>
    /\ SendReply([endpoint |-> "rcs-webhook", number |-> nreq + 1, data |-> form],
                 text, Get(form, "From", None), <<>>)

ReplyNext ==
    \E i \in 1..Len(ReplyForms), j \in 1..Len(ReplyTexts) :
        send_reply(ReplyForms[i], ReplyTexts[j])

ReplySpec == Init /\ [][ReplyNext]_vars


(***************************************************************************)
(* Properties of the handlers, stated on what the request handled last     *)
(* left behind.                                                            *)
(***************************************************************************)
IsSend == request.endpoint = "send-rcs"
IsWebhook == request.endpoint = "rcs-webhook"
IsMessages == request.endpoint = "messages"

\* the messages.create calls of the request
Creates == {i \in DOMAIN calls : calls[i].op = "create"}

\* the rows the request stored in a table
RowsStored(table) ==
    {i \in DOMAIN inserts : inserts[i].table = table /\ inserts[i].ok}

\* the phone of a /send-rcs request body, None when it has none
PhoneOf(data) == IF "phone" \in DOMAIN data THEN data.phone ELSE None

\* the fields of an inbound form
ButtonOf(form) == IF "ButtonPayload" \in DOMAIN form THEN form.ButtonPayload ELSE None
BodyOf(form) == IF "Body" \in DOMAIN form THEN form.Body ELSE ""

\* the reply instructions of a fallback text, in either spelling of the
\* last option
HasReplyInstructions(text) ==
    /\ Contains(text, "Reply 1 to Confirm, 2 to Reschedule")
    /\ Contains(Lower(text), "3 to call us")

\* C1: when the gateway reports the rich attempt failed, the handler makes
\* exactly one fallback attempt, a plain send whose body carries the custom
\* message, or else the customer name, date and time, together with the
\* reply instructions "Reply 1 to Confirm, 2 to Reschedule, 3 to Call Us".
C1_FallbackCarriesReplyInstructions ==
    (IsSend /\ Len(calls) > 0 /\ calls[1].outcome = "rest") =>
        /\ Cardinality(Creates) = 2
        /\ LET data == request.data
               body == calls[2].body
           IN /\ body # None
              /\ calls[2].content_sid = None
              /\ IF "message" \in DOMAIN data /\ Truthy(data.message)
                 THEN Contains(body, data.message)
                 ELSE /\ Contains(body, data.customer_name)
                      /\ Contains(body, data.date)
                      /\ Contains(body, data.time)
              /\ HasReplyInstructions(body)

\* C2: every send attempt of a /send-rcs request for which the provider
\* returned a message id has exactly one row in the messages table with that
\* id and the attempt's channel, also when the status fetch or the insert
\* failed.
C2_EveryAcceptedAttemptLogged ==
    IsSend =>
        \A i \in Creates :
            calls[i].outcome = "ok" =>
                LET rows == {k \in DOMAIN messages : messages[k].sid = calls[i].sid}
                IN /\ Cardinality(rows) = 1
                   /\ \A k \in rows : messages[k].message_type = calls[i].via

\* C3: the webhook answers 200 with an empty body, whatever happened while
\* it handled the message.
C3_WebhookAlways200 ==
    IsWebhook => response.code = 200 /\ response.body = ""

\* a webhook request during which the gateway raised, and one that could not
\* be read
C3_Witness ==
    /\ IsWebhook
    /\ \/ Len(calls) = 1 /\ calls[1].outcome = "other"
       \/ "MalformedJson" \in DOMAIN request.data
    /\ response.code = 200
    /\ response.body = ""

\* the reply computed for the button payload "confirm"
ConfirmButtonReplies == Replies("confirm", "")

\* C4 as stated: a Body of "1", without a button payload, is answered with
\* exactly the text a button payload "confirm" is answered with.
C4_DigitSameAsButton ==
    (IsWebhook /\ ~Truthy(ButtonOf(request.data)) /\ BodyOf(request.data) = "1") =>
        response_text \in ConfirmButtonReplies

\* C4: a Body of "1", without a button payload, is answered with the
\* confirmation text of the digit replies, which is not the text a button
\* payload "confirm" is answered with.
C4_DigitConfirmText ==
    (IsWebhook /\ ~Truthy(ButtonOf(request.data)) /\ BodyOf(request.data) = "1") =>
        /\ response_text = DigitConfirmReply
        /\ response_text \notin ConfirmButtonReplies

C4_Witness ==
    /\ IsWebhook
    /\ ~Truthy(ButtonOf(request.data))
    /\ BodyOf(request.data) = "1"
    /\ Len(calls) = 1
    /\ calls[1].outcome = "ok"
    /\ calls[1].body = DigitConfirmReply

\* the texts drawn that match no intent pattern and hold no yes/no keyword
UnmatchedTexts ==
    {WebhookCases[i].body : i \in
        {j \in 1..Len(WebhookCases) :
            /\ Truthy(WebhookCases[j].body)
            /\ WebhookCases[j].body \notin {"1", "2", "3"}
            /\ detect_intent(WebhookCases[j].body) = None
            /\ \A word \in {"yes", "yeah", "sure", "ok", "okay", "yep",
                            "no", "nope", "not", "nah"} :
                    ~Contains(Lower(WebhookCases[j].body), word)}}

\* C5: free text that matches no intent is answered with the generic menu,
\* and the conversation row logged for it has a null or empty intent.
C5_UnmatchedLoggedWithoutIntent ==
    (IsWebhook /\ ~Truthy(ButtonOf(request.data))
              /\ Strip(BodyOf(request.data)) \in UnmatchedTexts) =>
        /\ response_text = DefaultReply
        /\ \A i \in RowsStored("conversations") :
                inserts[i].row.intent \in {None, ""}

\* C6: a webhook request that computed a non-empty reply stored exactly one
\* conversation row, unless an insert failed.
C6_EveryReplyLogged ==
    (IsWebhook /\ Truthy(response_text) /\ \A i \in DOMAIN inserts : inserts[i].ok) =>
        Cardinality(RowsStored("conversations")) = 1

\* C7: GET /messages with limit N returns at most N rows (none for an N
\* below one), 50 at most without a limit, the newest first.
C7_AtMostLimitRows ==
    (IsMessages /\ response.code = 200) =>
        LET n == LimitArg(request.data)
            rows == response.rows
        IN /\ Len(rows) <= (IF n < 0 THEN 0 ELSE n)
           /\ \A i, j \in DOMAIN rows : i < j => rows[i].timestamp >= rows[j].timestamp

\* the phone with the '+' it is sent and stored with
WithPlus(phone) == IF SubSeq(phone, 1, 1) = "+" THEN phone ELSE "+" \o phone

\* C8: a phone given without a leading '+' is sent to, in every gateway
\* send of the request, and stored, in every row it writes, with a '+' put
\* before it; a phone given with one is used as it is.
C8_PlusPrepended ==
    (IsSend /\ Truthy(PhoneOf(request.data))) =>
        /\ \A i \in Creates : calls[i].to = WithPlus(request.data.phone)
        /\ \A i \in DOMAIN inserts :
                inserts[i].row.recipient = WithPlus(request.data.phone)

\* a phone without '+', a rich and a fallback send, and the row stored
C8_Witness ==
    /\ IsSend
    /\ Truthy(PhoneOf(request.data))
    /\ SubSeq(request.data.phone, 1, 1) # "+"
    /\ Cardinality(Creates) = 2
    /\ RowsStored("messages") # {}
    /\ messages[Len(messages)].recipient = "+" \o request.data.phone

\* the button payload "confirm" in several cases
ConfirmSpellings == {"confirm", "CONFIRM", "Confirm"}

\* C9: a button payload "confirm", in any letter case, is answered with the
\* confirmation text of the button, whatever Body comes with it.
C9_ConfirmButtonIgnoresBody ==
    (IsWebhook /\ ButtonOf(request.data) \in ConfirmSpellings) =>
        response_text = ButtonConfirmReply

\* "CONFIRM" with the Body "2", answered and sent
C9_Witness ==
    /\ IsWebhook
    /\ ButtonOf(request.data) = "CONFIRM"
    /\ BodyOf(request.data) = "2"
    /\ response_text = ButtonConfirmReply
    /\ Len(calls) = 1
    /\ calls[1].body = ButtonConfirmReply

\* C10: /send-rcs with a phone, when no messaging service is configured,
\* answers 500 with a configuration error, calls the gateway not at all and
\* writes no row.
C10_NotConfiguredNoSend ==
    [][(/\ nreq' = nreq + 1
        /\ request'.endpoint = "send-rcs"
        /\ Truthy(PhoneOf(request'.data))
        /\ ~Truthy(TWILIO_MESSAGING_SERVICE_SID))
       => /\ response'.code = 500
          /\ response'.success = FALSE
          /\ Contains(response'.error, "not configured")
          /\ calls' = <<>>
          /\ inserts' = <<>>
          /\ messages' = messages
          /\ conversations' = conversations]_vars

C10_Witness ==
    /\ IsSend
    /\ Truthy(PhoneOf(request.data))
    /\ ~Truthy(TWILIO_MESSAGING_SERVICE_SID)
    /\ response.code = 500
    /\ calls = <<>>


\* C11 as stated: /send-rcs answers 400 whenever the body lacks the phone or
\* lacks the message, and then sends nothing and stores nothing.
C11_PhoneOrMessageRequired ==
    (IsSend /\ "MalformedJson" \notin DOMAIN request.data
            /\ ("phone" \notin DOMAIN request.data \/ "message" \notin DOMAIN request.data)) =>
        /\ response.code = 400
        /\ calls = <<>>
        /\ inserts = <<>>

\* C11: /send-rcs answers 400 "Phone number is required" whenever the JSON
\* body has no phone or an empty one, and then sends nothing and stores
\* nothing; a body with a phone and no message is not answered 400.
C11_PhoneRequired ==
    (IsSend /\ "MalformedJson" \notin DOMAIN request.data) =>
        /\ ~Truthy(PhoneOf(request.data)) =>
                /\ response.code = 400
                /\ response.success = FALSE
                /\ response.error = "Phone number is required"
                /\ calls = <<>>
                /\ inserts = <<>>
        /\ Truthy(PhoneOf(request.data)) => response.code # 400

\* a body without phone, answered 400 with the service configured
C11_Witness ==
    /\ IsSend
    /\ "customer_name" \in DOMAIN request.data
    /\ "phone" \notin DOMAIN request.data
    /\ Truthy(TWILIO_MESSAGING_SERVICE_SID)
    /\ response.code = 400
    /\ calls = <<>>


FailedInserts == {i \in DOMAIN inserts : ~inserts[i].ok}

\* C13: a failed store insert leaves the caller-visible outcome as it is
\* when the insert goes through: /send-rcs answers 200 success with the sid,
\* status and channel of the message the row was to record, and the webhook
\* sends its reply to the sender and answers 200.
C13_StoreFailureNotSurfaced ==
    \A i \in FailedInserts :
        LET row == inserts[i].row
        IN /\ IsSend =>
                /\ response.code = 200
                /\ response.success = TRUE
                /\ response.error = None
                /\ response.sid = row.sid
                /\ response.status = row.status
                /\ response.message_type = row.message_type
                /\ \E k \in Creates : calls[k].outcome = "ok" /\ calls[k].sid = row.sid
           /\ IsWebhook =>
                /\ response.code = 200
                /\ response_text = row.response
                /\ IF Truthy(row.phone_number)
                   THEN /\ Cardinality(Creates) = 1
                        /\ \A k \in Creates :
                                calls[k].to = row.phone_number /\ calls[k].body = response_text
                   ELSE calls = <<>>

\* a send whose row could not be stored, answered as a success
C13_Witness ==
    /\ IsSend
    /\ FailedInserts # {}
    /\ response.success = TRUE
    /\ messages = <<>>


\* the button payloads drawn
ButtonsDrawn ==
    {WebhookForms[i].ButtonPayload :
        i \in {j \in 1..Len(WebhookForms) : "ButtonPayload" \in DOMAIN WebhookForms[j]}}

\* the replies of the text-intent matcher to each button payload drawn
MatcherReplies == [b \in ButtonsDrawn |-> get_response(b)]

\* the lower-cased button payloads drawn
LowerButtons == [b \in ButtonsDrawn |-> Lower(b)]

\* C14 as stated: a button payload equal, in any case, to one of "confirm",
\* "reschedule", "call_us", "call us", "call" gets that label's fixed reply,
\* and every other button payload gets a reply of the text-intent matcher
\* applied to the payload.
C14_OnlyListedLabelsFixed ==
    (IsWebhook /\ Truthy(ButtonOf(request.data))) =>
        LET b == ButtonOf(request.data)
        IN CASE LowerButtons[b] = "confirm" -> response_text = ButtonConfirmReply
             [] LowerButtons[b] = "reschedule" -> response_text = ButtonRescheduleReply
             [] LowerButtons[b] \in {"call_us", "call us", "call"} -> response_text = CallUsReply
             [] OTHER -> response_text \in MatcherReplies[b]

\* the button payloads drawn that hold "website" in any case
WebsiteButtons == {b \in ButtonsDrawn : Contains(LowerButtons[b], "website")}

\* C14: a non-empty button payload that holds "website", in any case, gets
\* the website reply; else one equal to "confirm" or "confirmed",
\* "reschedule", or "call", "call_us" or "call us" gets that label's fixed
\* reply; every other one gets a reply of the text-intent matcher applied to
\* the payload.
C14_ButtonLabels ==
    (IsWebhook /\ Truthy(ButtonOf(request.data))) =>
        LET b == ButtonOf(request.data)
        IN CASE b \in WebsiteButtons -> response_text = WebsiteReply
             [] b \notin WebsiteButtons /\ LowerButtons[b] \in {"confirm", "confirmed"} ->
                    response_text = ButtonConfirmReply
             [] b \notin WebsiteButtons /\ LowerButtons[b] = "reschedule" ->
                    response_text = ButtonRescheduleReply
             [] b \notin WebsiteButtons /\ LowerButtons[b] \in {"call_us", "call us", "call"} ->
                    response_text = CallUsReply
             [] OTHER -> response_text \in MatcherReplies[b]

\* the payload "Visit Website" answered with the website reply, which the
\* matcher would not give, and sent
C14_Witness ==
    /\ IsWebhook
    /\ ButtonOf(request.data) = "Visit Website"
    /\ response_text = WebsiteReply
    /\ WebsiteReply \notin MatcherReplies["Visit Website"]
    /\ Len(calls) = 1
    /\ calls[1].body = WebsiteReply


\* the sender of the form handled last, None when it has none
FromOf(form) == IF "From" \in DOMAIN form THEN form.From ELSE None

\* C15: when a reply is to be sent (there is a reply text and a sender), a
\* text of more than 300 characters goes out first as the template's
\* variable, and when that send fails exactly one plain send of the same
\* text follows; a text of 300 characters or fewer goes out in exactly one
\* plain send and not through the template.
C15_ReplyLengthPolicy ==
    (IsWebhook /\ Truthy(response_text) /\ Truthy(FromOf(request.data))) =>
        IF Len(response_text) > 300
        THEN /\ Len(calls) >= 1
             /\ calls[1].op = "create"
             /\ calls[1].content_sid = RCS_CARD_TEMPLATE_SID
             /\ calls[1].content_variables = "{\"1\": " \o JsonStr(response_text) \o "}"
             /\ calls[1].body = None
             /\ calls[1].to = request.data.From
             /\ IF calls[1].outcome = "ok"
                THEN Len(calls) = 1
                ELSE /\ Len(calls) = 2
                     /\ calls[2].op = "create"
                     /\ calls[2].content_sid = None
                     /\ calls[2].body = response_text
                     /\ calls[2].to = request.data.From
        ELSE /\ Len(calls) = 1
             /\ calls[1].op = "create"
             /\ calls[1].content_sid = None
             /\ calls[1].body = response_text
             /\ calls[1].to = request.data.From

\* a text of 301 characters whose template send failed, sent again plainly
C15_Witness ==
    /\ IsWebhook
    /\ Len(response_text) = 301
    /\ Len(calls) = 2
    /\ calls[1].content_sid = RCS_CARD_TEMPLATE_SID
    /\ calls[1].outcome # "ok"
    /\ calls[2].body = response_text
    /\ calls[2].outcome = "ok"


\* the declaration order of the intents
DeclarationOrder ==
    << "greeting", "get_started", "pricing", "features", "demo", "support",
       "appointment", "thanks", "bye" >>

\* the intent of a name
IntentNamed(name) == CHOOSE n \in 1..Len(intents) : intents[n].name = name

\* whether a pattern of the intent of that name is found in the text
Matches(name, text_lower) ==
    LET patterns == intents[IntentNamed(name)].patterns
    IN \E k \in 1..Len(patterns) : ReSearch(patterns[k], text_lower)

\* the first name, from the k-th of the declaration order on, that matches
RECURSIVE FirstFrom(_, _)
FirstFrom(k, text_lower) ==
    IF k > Len(DeclarationOrder) THEN None
    ELSE IF Matches(DeclarationOrder[k], text_lower) THEN DeclarationOrder[k]
    ELSE FirstFrom(k + 1, text_lower)

\* the free texts drawn that reach the matcher
MatcherTexts ==
    {WebhookForms[i].Body :
        i \in {j \in 1..Len(WebhookForms) :
                /\ "Body" \in DOMAIN WebhookForms[j]
                /\ "ButtonPayload" \notin DOMAIN WebhookForms[j]
                /\ Strip(WebhookForms[j].Body) \notin {"", "1", "2", "3"}}}

\* the first intent in declaration order matching each of them, lower-cased
FirstMatch == [t \in MatcherTexts |-> FirstFrom(1, Lower(Strip(t)))]

\* the names matching each of them
AllMatches ==
    [t \in MatcherTexts |->
        {k \in 1..Len(DeclarationOrder) : Matches(DeclarationOrder[k], Lower(Strip(t)))}]

\* the response list of the intent of a name
ResponsesOf(name) ==
    LET r == intents[IntentNamed(name)].responses IN {r[k] : k \in 1..Len(r)}

\* C16: for a free text that reaches the matcher, the intent detected (and
\* logged) is the first in declaration order with a pattern found in the
\* lower-cased text, whatever later intents match too, and none only when no
\* pattern of any intent is found; the reply is one of that intent's
\* responses, or, without an intent, the yes, no or default reply.
C16_FirstMatchWins ==
    (IsWebhook /\ "ButtonPayload" \notin DOMAIN request.data
               /\ BodyOf(request.data) \in MatcherTexts) =>
        LET expected == FirstMatch[request.data.Body]
        IN /\ Len(inserts) = 1
           /\ inserts[1].row.intent = (IF expected = None THEN "None" ELSE expected)
           /\ IF expected = None
              THEN /\ AllMatches[request.data.Body] = {}
                   /\ response_text \in {YesReply, NoReply, DefaultReply}
              ELSE /\ AllMatches[request.data.Body] # {}
                   /\ response_text \in ResponsesOf(expected)

\* a text matching demo, thanks and bye, answered as demo
C16_Witness ==
    /\ IsWebhook
    /\ BodyOf(request.data) = "THANKS for the demo, bye"
    /\ AllMatches[request.data.Body] = {5, 8, 9}
    /\ Len(inserts) = 1
    /\ inserts[1].ok
    /\ inserts[1].row.intent = "demo"
    /\ response_text \in ResponsesOf("demo")
    /\ response_text \notin ResponsesOf("thanks")


\* the sends of the request that the provider accepted
Accepted == {i \in Creates : calls[i].outcome = "ok"}

\* C17: /send-rcs makes its fallback send only when the provider rejected
\* the rich send: no request has two sends accepted by the provider, also
\* not when the rich send was accepted and the status fetch after it failed.
C17_NoSecondAcceptedSend ==
    IsSend =>
        /\ Cardinality(Accepted) <= 1
        /\ Cardinality(Creates) = 2 => calls[1].outcome = "rest"

\* C18: /send-rcs answers success:false only when the provider accepted no
\* send of the request; when a send obtained a message id the answer is
\* success:true with that id.
C18_FailureOnlyIfNothingAccepted ==
    (IsSend /\ Accepted # {}) =>
        /\ response.success = TRUE
        /\ \E i \in Accepted : response.sid = calls[i].sid

\* C19: every conversation row records a reply that was handed to the
\* gateway, for the row's phone, in a send the provider accepted.
C19_LoggedReplyWasSent ==
    IsWebhook =>
        \A i \in RowsStored("conversations") :
            \E k \in Accepted :
                /\ calls[k].to = inserts[i].row.phone_number
                /\ \/ calls[k].body = inserts[i].row.response
                   \/ calls[k].content_variables =
                        "{\"1\": " \o JsonStr(inserts[i].row.response) \o "}"

=============================================================================
